---- MODULE Spec2Model ----
(***************************************************************************)
(* Structured plan execution engine of SAM (src/v5/brain): PlanValidator,  *)
(* PlanMemory and PlanExecutor.                                            *)
(*                                                                         *)
(* Representation.                                                         *)
(*  - A Python str that may carry ${name} templates is a sequence of       *)
(*    tokens: <<"lit", text>> is a run of characters with no "${" or "}"   *)
(*    in it, <<"ref", name>> is the text "${name}".  The regular           *)
(*    expression \$\{([^}]+)\} therefore matches exactly the ref tokens.   *)
(*  - A Python value is [k |-> kind, v |-> tokens]; kind "str" holds the   *)
(*    string itself, every other kind holds the text str() prints for it.  *)
(*  - An optional dict key is [k |-> "absent" | kind, v |-> payload].      *)
(*  - A dict is the sequence of its <<key, value>> items (dicts iterate    *)
(*    in insertion order).                                                 *)
(***************************************************************************)
EXTENDS Integers, Sequences, FiniteSets, TLC

(* ---------------------------------------------------------------- bounds *)

\* Longest plan the validator specification draws.
MaxSteps == 2
\* Longest plan the executor specification draws.
MaxExecSteps == 2
\* Number of execute_plan calls issued on the one PlanExecutor.
MaxCalls == 2

(* ---------------------------------------------------------------- values *)

\* A text is a sequence of pieces: a literal piece, the template "${n}",
\* the lone character "$", the piece "{n}".  A text a plan or a collaborator
\* supplies never has "$" directly before "{n}": that text is written Ref(n).
Lit(t) == <<"lit", t>>
Ref(n) == <<"ref", n>>
Dollar == <<"lit", "$">>
Braced(n) == <<"braced", n>>

StrVal(toks) == [k |-> "str", v |-> toks]
NoneVal == [k |-> "none", v |-> <<Lit("None")>>]
IntVal(t) == [k |-> "int", v |-> <<Lit(t)>>]
ListVal == [k |-> "list", v |-> <<Lit("[]")>>]

\* isinstance(value, str)
IsStr(val) == val.k = "str"

\* str(value): the string itself for a str, the printed text otherwise.
PyStr(val) == val.v

Absent == [k |-> "absent", v |-> ""]
Str(s) == [k |-> "str", v |-> s]
NonStr == [k |-> "int", v |-> "5"]
Has(f) == f.k # "absent"

NoArgs == [k |-> "absent", v |-> <<>>]
Dict(items) == [k |-> "dict", v |-> items]
NotADict == [k |-> "other", v |-> <<>>]

\* The image of a sequence.
Range(s) == {s[j] : j \in 1..Len(s)}

RECURSIVE Flatten(_)
\* Concatenation of a sequence of sequences.
Flatten(ss) == IF ss = <<>> THEN <<>> ELSE Head(ss) \o Flatten(Tail(ss))

\* The keys of a dict, in iteration order.
Keys(items) == [j \in 1..Len(items) |-> items[j][1]]

(* ----------------------------------------------------------- action schema *)

\* ACTIONS of src/v5/action_schema.py, restricted to three of its entries.
ACTIONS_SCHEMA ==
    [get_events |-> [required_args |-> <<>>,
                     optional_args |-> <<"date", "upcoming_only", "limit">>],
     read_note |-> [required_args |-> <<"title">>, optional_args |-> <<>>],
     create_event |-> [required_args |-> <<"title", "start_time">>,
                       optional_args |-> <<"duration", "description", "location", "date">>]]

(* ------------------------------------------------------------ PlanValidator *)

\* Whether a match of template_pattern, \$\{([^}]+)\}, ends with piece j of
\* the text: the piece is a template, or it is "{n}" directly after a "$".
IsTemplateAt(toks, j) ==
    \/ toks[j][1] = "ref"
    \/ toks[j][1] = "braced" /\ j > 1 /\ toks[j - 1] = Dollar

\* re.findall(template_pattern, text): the names of the templates, in order.
FindTemplates(toks) ==
    LET F[j \in 0..Len(toks)] ==
            IF j = 0 THEN <<>>
            ELSE IF IsTemplateAt(toks, j) THEN Append(F[j - 1], toks[j][2]) ELSE F[j - 1]
    IN F[Len(toks)]

\* PlanValidator._validate_structure
ValidateStructure(plan) ==
    (IF plan.goal.k = "absent" THEN <<<<"missing_key", "goal">>>> ELSE <<>>)
    \o (IF plan.steps.k = "absent" THEN <<<<"missing_key", "steps">>>> ELSE <<>>)
    \o (IF plan.goal.k \notin {"absent", "str"} THEN <<<<"goal_not_string">>>> ELSE <<>>)
    \o (IF plan.steps.k = "absent" THEN <<>>
        ELSE IF plan.steps.k # "list" THEN <<<<"steps_not_list">>>>
        ELSE IF Len(plan.steps.v) = 0 THEN <<<<"steps_empty">>>>
        ELSE <<>>)
    \o (IF plan.reasoning.k \notin {"absent", "str"}
        THEN <<<<"reasoning_not_string">>>> ELSE <<>>)

\* PlanValidator._validate_action_args; step_index is 0-based as in the source.
ValidateActionArgs(args, action_name, actions_schema, step_index) ==
    LET action_spec == actions_schema[action_name]
        required_args == action_spec.required_args
        all_valid_args == required_args \o action_spec.optional_args
        invalid == [j \in 1..Len(args) |->
                       IF args[j][1] \notin Range(all_valid_args)
                       THEN <<<<"invalid_argument", step_index, args[j][1], action_name>>>>
                       ELSE <<>>]
        missing == [j \in 1..Len(required_args) |->
                       IF required_args[j] \notin Range(Keys(args))
                       THEN <<<<"missing_required_argument", step_index,
                                required_args[j], action_name>>>>
                       ELSE <<>>]
        prim == [j \in 1..Len(args) |->
                    IF args[j][2].k \notin {"str", "int", "float", "bool", "none"}
                    THEN <<<<"not_primitive", step_index, args[j][1]>>>>
                    ELSE <<>>]
    IN Flatten(invalid) \o Flatten(missing) \o Flatten(prim)

\* PlanValidator._validate_action_step
ValidateActionStep(step, step_index, actions_schema) ==
    IF step.action.v \notin DOMAIN actions_schema
    THEN <<<<"unknown_action", step_index, step.action.v>>>>
    ELSE IF step.args.k = "absent" THEN <<>>
    ELSE IF step.args.k # "dict" THEN <<<<"args_not_dict", step_index>>>>
    ELSE ValidateActionArgs(step.args.v, step.action.v, actions_schema, step_index)

\* PlanValidator._validate_reasoning_step; "" and " " are the strings that
\* strip() empties.
ValidateReasoningStep(step, step_index) ==
    IF step.reasoning.k # "str" THEN <<<<"reasoning_not_string", step_index>>>>
    ELSE IF step.reasoning.v \in {"", " "} THEN <<<<"reasoning_empty", step_index>>>>
    ELSE <<>>

\* PlanValidator._validate_single_step
ValidateSingleStep(step, step_index, actions_schema) ==
    LET has_action == Has(step.action)
        has_reasoning == Has(step.reasoning)
    IN IF step.shape # "dict" THEN <<<<"not_a_dictionary", step_index>>>>
       ELSE
       (IF ~step.id THEN <<<<"missing_id", step_index>>>> ELSE <<>>)
       \o (IF ~has_action /\ ~has_reasoning
           THEN <<<<"neither_action_nor_reasoning", step_index>>>>
           ELSE IF has_action /\ has_reasoning
           THEN <<<<"both_action_and_reasoning", step_index>>>>
           ELSE <<>>)
       \o (IF has_action THEN ValidateActionStep(step, step_index, actions_schema) ELSE <<>>)
       \o (IF has_reasoning THEN ValidateReasoningStep(step, step_index) ELSE <<>>)
       \o (IF ~Has(step.save_as) THEN <<>>
           ELSE IF step.save_as.k # "str" THEN <<<<"save_as_not_string", step_index>>>>
           ELSE IF step.save_as.v \in {"", " "} THEN <<<<"save_as_empty", step_index>>>>
           ELSE <<>>)

\* PlanValidator._validate_steps
ValidateSteps(steps, actions_schema) ==
    Flatten([j \in 1..Len(steps) |-> ValidateSingleStep(steps[j], j - 1, actions_schema)])

\* defined_vars with the step's own save_as added before its arguments are read.
DefinedUpTo(steps, j) ==
    {steps[m].save_as.v : m \in {n \in 1..j : steps[n].save_as.k = "str"}}

\* The save_as names that _validate_memory_references has added to
\* defined_vars when it reaches the step at 1-based position j.
DefinedBefore(steps, j) ==
    {steps[m].save_as.v : m \in {n \in 1..(j - 1) : steps[n].save_as.k = "str"}}

\* The undefined-variable errors of one argument value.
ArgReferenceErrors(steps, j, item) ==
    IF ~IsStr(item[2]) THEN <<>>
    ELSE LET template_vars == FindTemplates(item[2].v)
         IN Flatten([m \in 1..Len(template_vars) |->
                IF template_vars[m] \notin DefinedBefore(steps, j)
                THEN <<<<"undefined_variable", j - 1, template_vars[m], item[1]>>>>
                ELSE <<>>])

\* PlanValidator._validate_memory_references
ValidateMemoryReferences(steps) ==
    Flatten([j \in 1..Len(steps) |->
        IF steps[j].args.k = "dict"
        THEN Flatten([a \in 1..Len(steps[j].args.v) |->
                         ArgReferenceErrors(steps, j, steps[j].args.v[a])])
        ELSE <<>>])

\* Plan step limit of _validate_logical_flow.
MaxPlanSteps == 10

\* A flow check whose step limit is reached by a plan of exactly
\* MaxPlanSteps steps.
ValidateLogicalFlowAtLimit(steps) ==
    (IF Len(steps) >= MaxPlanSteps THEN <<<<"too_many_steps">>>> ELSE <<>>)
    \o Flatten([j \in 1..Len(steps) |->
           IF Has(steps[j].save_as)
              /\ \E m \in 1..(j - 1) : Has(steps[m].save_as) /\ steps[m].save_as = steps[j].save_as
           THEN <<<<"defined_multiple_times", j - 1, steps[j].save_as.v>>>>
           ELSE <<>>])

\* The flow check without its defined_vars loop.
ValidateLogicalFlowCountOnly(steps) ==
    IF Len(steps) > MaxPlanSteps THEN <<<<"too_many_steps">>>> ELSE <<>>

\* PlanValidator._validate_logical_flow
ValidateLogicalFlow(steps) ==
    (IF Len(steps) > MaxPlanSteps THEN <<<<"too_many_steps">>>> ELSE <<>>)
    \o Flatten([j \in 1..Len(steps) |->
           IF Has(steps[j].save_as)
              /\ \E m \in 1..(j - 1) : Has(steps[m].save_as) /\ steps[m].save_as = steps[j].save_as
           THEN <<<<"defined_multiple_times", j - 1, steps[j].save_as.v>>>>
           ELSE <<>>])

\* A validate_plan that returns after the first check that found errors.
ValidatePlanFirstFailingCheck(plan, actions_schema) ==
    LET structure_errors == ValidateStructure(plan)
    IN IF structure_errors # <<>>
       THEN [is_valid |-> FALSE, errors |-> structure_errors]
       ELSE LET step_errors == ValidateSteps(plan.steps.v, actions_schema)
                memory_errors == ValidateMemoryReferences(plan.steps.v)
                errors == IF step_errors # <<>> THEN step_errors
                          ELSE IF memory_errors # <<>> THEN memory_errors
                          ELSE ValidateLogicalFlow(plan.steps.v)
            IN [is_valid |-> errors = <<>>, errors |-> errors]

\* PlanValidator.validate_plan: (is_valid, errors)
ValidatePlan(plan, actions_schema) ==
    LET structure_errors == ValidateStructure(plan)
    IN IF structure_errors # <<>>
       THEN [is_valid |-> FALSE, errors |-> structure_errors]
       ELSE LET errors == ValidateSteps(plan.steps.v, actions_schema)
                          \o ValidateMemoryReferences(plan.steps.v)
                          \o ValidateLogicalFlow(plan.steps.v)
            IN [is_valid |-> errors = <<>>, errors |-> errors]

\* A validation that gives every step without args an empty args dict.
ValidatedPlanWithDefaultArgs(plan) ==
    IF plan.steps.k # "list" THEN plan
    ELSE [plan EXCEPT !.steps.v =
             [j \in 1..Len(plan.steps.v) |->
                 IF plan.steps.v[j].shape = "dict" /\ plan.steps.v[j].args.k = "absent"
                 THEN [plan.steps.v[j] EXCEPT !.args = Dict(<<>>)]
                 ELSE plan.steps.v[j]]]

\* The plan object after validate_plan returned: the validator reads the
\* plan and its steps and assigns to none of them.
ValidatedPlan(plan) == plan

\* Whether validate_plan raises instead of returning: "key not in plan" on
\* a plan that is None, and, once the structural checks passed,
\* "action_name not in actions_schema" on an unhashable action name,
\* '"args" in step' on a step that is None, and "var_name in defined_vars"
\* on an unhashable save_as.
ValidatePlanRaises(plan, actions_schema) ==
    \/ plan.shape = "none"
    \/ /\ ValidateStructure(plan) = <<>>
       /\ \E j \in 1..Len(plan.steps.v) :
             \/ plan.steps.v[j].action.k = "list"
             \/ plan.steps.v[j].shape = "none"
             \/ plan.steps.v[j].save_as.k = "list"

(* ------------------------------------------------------------------ inputs *)

\* A step dict; shape is "dict" for a dict and names the Python type of a
\* step that is not one ("str", "none").
Step(id, action, reasoning, condition, args, save_as) ==
    [shape |-> "dict",
     id |-> id, action |-> action, reasoning |-> reasoning, condition |-> condition,
     next_id |-> IF Has(condition) THEN Str("s9") ELSE Absent,
     args |-> args, save_as |-> save_as]

\* A step that is not a dict: it has no key.
NotADictStep(shape) ==
    [Step(FALSE, Absent, Absent, Absent, NoArgs, Absent) EXCEPT !.shape = shape]

\* A value that is a list, in the place of a name: it cannot be hashed.
ListName == [k |-> "list", v |-> "['x']"]

Arg(key, val) == <<key, val>>

\* Steps the validator specification builds plans from.
ValidatorSteps ==
    {Step(TRUE, Str("get_events"), Absent, Absent, a, s) :
        a \in {NoArgs,
               Dict(<<Arg("date", StrVal(<<Lit("today")>>))>>),
               Dict(<<Arg("date", StrVal(<<Ref("x")>>))>>),
               Dict(<<Arg("date", StrVal(<<Lit("on "), Ref("y")>>))>>)},
        s \in {Absent, Str("x"), Str("y")}}
    \cup {Step(TRUE, Str("read_note"), Absent, Absent, a, s) :
        a \in {NoArgs, Dict(<<>>),
               Dict(<<Arg("title", StrVal(<<Ref("x")>>))>>),
               Dict(<<Arg("title", StrVal(<<Ref("x"), Ref("y")>>))>>),
               Dict(<<Arg("date", StrVal(<<Lit("today")>>))>>)},
        s \in {Absent, Str("y")}}
    \cup {Step(TRUE, Str("create_event"), Absent, Absent, a, Absent) :
        a \in {Dict(<<Arg("title", StrVal(<<Lit("dinner")>>)),
                      Arg("start_time", StrVal(<<Ref("x")>>))>>),
               Dict(<<Arg("title", StrVal(<<Lit("dinner")>>))>>)}}
    \cup {Step(TRUE, Str("get_events"), Absent, Absent, a, Absent) :
        a \in {NotADict,
               Dict(<<Arg("bogus", StrVal(<<Ref("x")>>))>>),
               Dict(<<Arg("limit", IntVal("5"))>>),
               Dict(<<Arg("date", ListVal)>>)}}
    \cup {Step(TRUE, Str("fly"), Absent, Absent, a, Absent) :
        a \in {NoArgs, Dict(<<Arg("date", StrVal(<<Ref("x")>>))>>)}}
    \cup {Step(TRUE, Absent, Str(r), Absent, NoArgs, s) :
        r \in {"find a free slot"}, s \in {Absent, Str("x"), Str("y")}}
    \cup {Step(TRUE, Absent, Str(""), Absent, NoArgs, Absent),
          Step(TRUE, Absent, NonStr, Absent, NoArgs, Absent),
          Step(TRUE, Absent, Str("find a free slot"), Absent,
               Dict(<<Arg("date", StrVal(<<Ref("y")>>))>>), Absent),
          Step(TRUE, Str("get_events"), Str("find a free slot"), Absent, NoArgs, Absent),
          Step(TRUE, Absent, Absent, Absent, NoArgs, Absent),
          Step(TRUE, Absent, Absent, Str("${x} == true"), NoArgs, Absent),
          Step(TRUE, Str("get_events"), Absent, Str("${x} == true"), NoArgs, Absent),
          Step(FALSE, Str("get_events"), Absent, Absent, NoArgs, Absent),
          Step(TRUE, Str("get_events"), Absent, Absent, NoArgs, Str("")),
          Step(TRUE, Str("get_events"), Absent, Absent, NoArgs, NonStr),
          Step(TRUE, Str("get_events"), Absent, Absent, NoArgs, ListName),
          Step(TRUE, ListName, Absent, Absent, NoArgs, Absent),
          NotADictStep("str"),
          NotADictStep("none")}

RECURSIVE SeqsUpTo(_, _)
\* The sequences over S of length at most n.
SeqsUpTo(S, n) ==
    IF n = 0 THEN {<<>>}
    ELSE LET shorter == SeqsUpTo(S, n - 1)
         IN shorter \cup {Append(q, e) : q \in {r \in shorter : Len(r) = n - 1}, e \in S}

\* A plan dict; shape is "dict" for a dict and names the Python type of a
\* plan that is not one ("list", "none").
Plan(goal, steps, reasoning) ==
    [shape |-> "dict", goal |-> goal, steps |-> steps, reasoning |-> reasoning]

\* A plan that is not a dict: it has no key.
NotADictPlan(shape) ==
    [Plan(Absent, [k |-> "absent", v |-> <<>>], Absent) EXCEPT !.shape = shape]
StepList(steps) == [k |-> "list", v |-> steps]

\* Plans at the step limit of the validator and one step over it.
LongPlans ==
    {Plan(Str("t"),
          StepList([j \in 1..n |->
                       Step(TRUE, Str("get_events"), Absent, Absent, NoArgs, Absent)]),
          Absent) : n \in {MaxPlanSteps, MaxPlanSteps + 1}}

\* The plans handed to validate_plan: every step list over ValidatorSteps
\* under a well-formed goal, the plans around the step limit, and the
\* malformed top-level shapes.
ValidatorPlans ==
    {Plan(Str("t"), StepList(ss), Absent) : ss \in SeqsUpTo(ValidatorSteps, MaxSteps)}
    \cup LongPlans
    \cup {Plan(g, StepList(ss), r) :
            g \in {Absent, NonStr}, r \in {Absent, Str("why"), NonStr},
            ss \in SeqsUpTo({Step(TRUE, Str("get_events"), Absent, Absent,
                                  Dict(<<Arg("date", StrVal(<<Ref("x")>>))>>), Str("x"))},
                            MaxSteps)}
    \cup {Plan(Str("t"), [k |-> sk, v |-> <<>>], r) :
            sk \in {"absent", "other"}, r \in {Absent, NonStr}}
    \cup {NotADictPlan("list"), NotADictPlan("none")}

(* --------------------------------------------------------------- PlanMemory *)

\* PlanMemory.variables of a cleared memory: the dict with no key.
NoVariables == [n \in {} |-> NoneVal]

\* A store that skips the value None.
StoreUnlessNone(variables, history, variable_name, value) ==
    IF value.k = "none"
    THEN [variables |-> variables, history |-> history]
    ELSE [variables |-> [n \in (DOMAIN variables) \cup {variable_name} |->
                            IF n = variable_name THEN value ELSE variables[n]],
          history |-> Append(history, [action |-> "store", variable |-> variable_name,
                                       value |-> value.v])]

\* PlanMemory.store: (variables, execution_history) after the call.  The
\* history entry keeps the printed value (its 100-character preview).
Store(variables, history, variable_name, value) ==
    [variables |-> [n \in (DOMAIN variables) \cup {variable_name} |->
                       IF n = variable_name THEN value ELSE variables[n]],
     history |-> Append(history, [action |-> "store", variable |-> variable_name,
                                  value |-> PyStr(value)])]

\* A substitution that leaves the text as it is.
SubstituteNothing(toks, variables) == toks

\* PlanMemory.substitute_templates: one pass of re.sub; the text put in for
\* a template is not scanned again.
SubstituteTemplates(toks, variables) ==
    Flatten([j \in 1..Len(toks) |->
        IF toks[j][1] = "ref" /\ toks[j][2] \in DOMAIN variables
        THEN PyStr(variables[toks[j][2]])
        ELSE <<toks[j]>>])

\* A check that reports no name.
ValidateTemplateVariablesNone(toks, variables) == <<>>

\* PlanMemory.validate_template_variables: the template names of the text
\* that are no key of variables.
ValidateTemplateVariables(toks, variables) ==
    LET template_vars == FindTemplates(toks)
    IN Flatten([j \in 1..Len(template_vars) |->
           IF template_vars[j] \notin DOMAIN variables
           THEN <<template_vars[j]>> ELSE <<>>])

(* ---------------------------------------------------------- ReasoningEngine *)

\* What a collaborator call does: it returns a value or it raises.
Returns(val) == [raises |-> FALSE, value |-> val]
Raises == [raises |-> TRUE, value |-> StrVal(<<Lit("boom")>>)]

\* ReasoningEngine.execute_reasoning_step: the reply of the text-generation
\* collaborator, or the REASONING_ERROR string when it raised.
ExecuteReasoning(outcome) ==
    IF outcome.raises
    THEN StrVal(<<Lit("REASONING_ERROR: ")>> \o outcome.value.v)
    ELSE outcome.value

\* The strings whose upper() starts with "ERROR:".
ErrorPrefixed == {"Error: no reply"}

\* Length limit of validate_reasoning_result.
MaxResultLength == 1000

\* The texts of MaxResultLength and of MaxResultLength + 1 characters "a".
TextAtLimit == "a * 1000"
TextOverLimit == "a * 1001"

\* len() of a literal text of a reasoning result.
TextLen(t) ==
    CASE t = TextAtLimit -> MaxResultLength
      [] t = TextOverLimit -> MaxResultLength + 1
      [] t \in {"REASONING_ERROR: ", "INSUFFICIENT_DATA", "insufficient_data"} -> 17
      [] t \in {"Error: no reply", "REASONING_ERROR"} -> 15
      [] t = "7:00 PM" -> 7
      [] t = "ERROR" -> 5
      [] t = "boom" -> 4

\* len() of a string; the names of the model have one character, so a
\* template "${x}" has four.
StrLen(toks) ==
    LET F[j \in 0..Len(toks)] ==
            IF j = 0 THEN 0
            ELSE F[j - 1] + (IF toks[j][1] = "ref" THEN 4 ELSE TextLen(toks[j][2]))
    IN F[Len(toks)]

\* ReasoningEngine.validate_reasoning_result
ValidateReasoningResult(result) ==
    ~ \/ /\ IsStr(result)
         /\ \/ result.v \in {<<Lit("INSUFFICIENT_DATA")>>, <<Lit("insufficient_data")>>,
                             <<Lit("ERROR")>>, <<Lit("REASONING_ERROR")>>}
            \/ Len(result.v) > 0 /\ result.v[1][1] = "lit" /\ result.v[1][2] \in ErrorPrefixed
      \/ result.k = "none"
      \/ IsStr(result) /\ result.v = <<>>
      \/ IsStr(result) /\ StrLen(result.v) > MaxResultLength

(* ------------------------------------------------------------- PlanExecutor *)

NoError == <<>>
NoResult == [k |-> "absent", v |-> <<>>]

\* A step result dict: error is NoError and result is NoResult when the key
\* is not in the dict.
StepResult(step_type, what, args, result, error) ==
    [step_type |-> step_type, what |-> what, args |-> args, result |-> result,
     error |-> error, step_number |-> 0, is_valid |-> TRUE]

\* A read of a key the step result never has.
GetResultOfNoKey(step_result) == NoneVal

\* step_result.get("result")
GetResult(step_result) ==
    IF step_result.result.k = "absent" THEN NoneVal ELSE step_result.result

\* The substituted_args of _execute_action_step.
SubstitutedArgs(step, variables) ==
    LET args == IF step.args.k = "absent" THEN <<>> ELSE step.args.v
    IN [j \in 1..Len(args) |->
           <<args[j][1],
             IF IsStr(args[j][2])
             THEN StrVal(SubstituteTemplates(args[j][2].v, variables))
             ELSE args[j][2]>>]

\* A substitution written back into the args dict of the step.
PlanSubstitutedInPlace(plan, i, variables) ==
    IF plan.steps.v[i].args.k = "dict"
    THEN [plan EXCEPT !.steps.v[i].args.v = SubstitutedArgs(plan.steps.v[i], variables)]
    ELSE plan

\* The plan object after _execute_step ran step i: substituted_args is a
\* new dict, the step and its args are read and assigned to nowhere.
PlanAfterStep(plan, i, variables) == plan

\* The missing_vars of _execute_action_step.
MissingVars(substituted_args, variables) ==
    Flatten([j \in 1..Len(substituted_args) |->
        IF IsStr(substituted_args[j][2])
        THEN ValidateTemplateVariables(substituted_args[j][2].v, variables)
        ELSE <<>>])

\* Whether _execute_action_step reaches self.action_executor(...).
InvokesAction(step, variables) ==
    MissingVars(SubstitutedArgs(step, variables), variables) = <<>>

\* PlanExecutor._execute_action_step; outcome is what the action
\* collaborator does if it is called.
ExecuteActionStep(step, variables, outcome) ==
    LET substituted_args == SubstitutedArgs(step, variables)
        missing_vars == MissingVars(substituted_args, variables)
    IN IF missing_vars # <<>>
       THEN StepResult("action", step.action.v, substituted_args, NoResult,
                       <<"Missing template variables", missing_vars>>)
       ELSE IF outcome.raises
       THEN StepResult("action", step.action.v, substituted_args, NoResult,
                       <<"Action execution failed", outcome.value.v>>)
       ELSE StepResult("action", step.action.v, substituted_args, outcome.value, NoError)

\* PlanExecutor._execute_reasoning_step; outcome is what the text-generation
\* collaborator does.
ExecuteReasoningStep(step, outcome) ==
    LET result == ExecuteReasoning(outcome)
    IN [StepResult("reasoning", step.reasoning.v, <<>>, result, NoError)
           EXCEPT !.is_valid = ValidateReasoningResult(result)]

\* The conditions the steps of the model carry: the variable and the
\* expected value of "${var} == literal".
ConditionVar(condition) == "x"
ConditionExpected(condition) == [k |-> "bool", v |-> <<Lit("True")>>]

\* PlanExecutor._execute_conditional_step for a "${var} == literal" condition.
ExecuteConditionalStep(step, variables) ==
    IF ~Has(step.next_id)
    THEN StepResult("error", "", <<>>, NoResult, <<"'next_id'">>)
    ELSE LET var_name == ConditionVar(step.condition.v)
             actual_value == IF var_name \in DOMAIN variables
                             THEN variables[var_name] ELSE NoneVal
             condition_result == actual_value = ConditionExpected(step.condition.v)
         IN StepResult("conditional", step.condition.v, <<>>,
                       [k |-> "bool",
                        v |-> <<Lit(IF condition_result THEN "True" ELSE "False")>>],
                       NoError)

\* The dispatch of _execute_step on the keys of the step.
StepOutcome(step, variables, outcome) ==
    IF Has(step.action) THEN ExecuteActionStep(step, variables, outcome)
    ELSE IF Has(step.reasoning) THEN ExecuteReasoningStep(step, outcome)
    ELSE IF Has(step.condition) THEN ExecuteConditionalStep(step, variables)
    ELSE StepResult("unknown", "", <<>>, NoResult,
                    <<"Step must have either 'action', 'reasoning', or 'condition'">>)

\* A numbering of the results that starts at 0.
ExecuteOneStepFromZero(step, step_number, variables, outcome) ==
    [StepOutcome(step, variables, outcome) EXCEPT !.step_number = step_number - 1]

\* PlanExecutor._execute_step
ExecuteOneStep(step, step_number, variables, outcome) ==
    [StepOutcome(step, variables, outcome) EXCEPT !.step_number = step_number]

\* A loop that never takes the failure exit.
StepFailedIgnored(step_result) == FALSE

\* The failure test of the step loop: step_result.get("error")
StepFailed(step_result) == step_result.error # NoError

\* A call that runs the plan whatever the validator said.
RejectedNever(v) == FALSE

\* The validation exit of execute_plan: not is_valid
Rejected(v) == ~v.is_valid

\* Whether _execute_step calls a collaborator for the step, and which.
Dispatch(step, step_number, variables) ==
    IF Has(step.action)
    THEN IF InvokesAction(step, variables)
         THEN <<[to |-> "action", step_number |-> step_number, name |-> step.action.v,
                 args |-> SubstitutedArgs(step, variables)]>>
         ELSE <<>>
    ELSE IF Has(step.reasoning)
    THEN <<[to |-> "reasoning", step_number |-> step_number, name |-> step.reasoning.v,
            args |-> <<>>]>>
    ELSE <<>>

\* The dict execute_plan returns.
ExecutionResult(success, error, validation_errors, results, final_memory) ==
    [success |-> success, error |-> error, validation_errors |-> validation_errors,
     results |-> results, final_memory |-> final_memory]

\* Steps the executor specification builds plans from.
ExecutorSteps ==
    {Step(TRUE, Str("get_events"), Absent, Absent, NoArgs, s) :
        s \in {Absent, Str("x"), Str("y")}}
    \cup {Step(TRUE, Str("get_events"), Absent, Absent, a, s) :
        a \in {Dict(<<Arg("limit", IntVal("5")), Arg("date", StrVal(<<Ref("x")>>))>>)},
        s \in {Absent, Str("y")}}
    \cup {Step(TRUE, Str("get_events"), Absent, Absent,
               Dict(<<Arg("date", StrVal(<<Lit("on "), Ref("y")>>))>>), Absent),
          Step(TRUE, Str("get_events"), Absent, Absent,
               Dict(<<Arg("date", StrVal(<<Dollar, Ref("y")>>))>>), Absent),
          Step(TRUE, Str("read_note"), Absent, Absent, NoArgs, Absent),
          Step(TRUE, Str("read_note"), Absent, Absent, Dict(<<>>), Absent),
          Step(TRUE, Str("create_event"), Absent, Absent,
               Dict(<<Arg("title", StrVal(<<Lit("dinner")>>)),
                      Arg("start_time", StrVal(<<Ref("x")>>))>>), Absent),
          Step(TRUE, Absent, Str("find a free slot"), Absent, NoArgs, Absent),
          Step(TRUE, Absent, Str("find a free slot"), Absent, NoArgs, Str("x")),
          Step(TRUE, Absent, Absent, Str("${x} == true"), NoArgs, Absent)}

\* Plans of a malformed shape: not a dict, a step that is not a dict, a
\* list where a name is expected.
MalformedPlans ==
    {NotADictPlan("list"), NotADictPlan("none")}
    \cup {Plan(Str("t"), StepList(<<st>>), Absent) :
            st \in {NotADictStep("str"), NotADictStep("none"),
                    Step(TRUE, Str("get_events"), Absent, Absent, NoArgs, ListName),
                    Step(TRUE, ListName, Absent, Absent, NoArgs, Absent)}}

\* Whether execute_plan raises before its try block: plan.get on a plan
\* that is not a dict, or validate_plan raising.
ExecutePlanRaises(plan, actions_schema) ==
    \/ plan.shape # "dict"
    \/ ValidatePlanRaises(plan, actions_schema)

\* The plans handed to execute_plan.
ExecutorPlans ==
    {Plan(Str("t"), StepList(ss), Absent) : ss \in SeqsUpTo(ExecutorSteps, MaxExecSteps)}
    \cup LongPlans
    \cup {Plan(Absent, StepList(<<Step(TRUE, Str("get_events"), Absent, Absent, NoArgs, Absent)>>),
               Absent)}
    \cup MalformedPlans

\* What the action collaborator and the text-generation collaborator may do.
Outcomes ==
    {Raises} \cup {Returns(val) : val \in {StrVal(<<Lit("7:00 PM")>>), StrVal(<<Ref("x")>>),
                                          NoneVal}}

\* The failure signal execute_action returns, without raising, when the
\* calendar service could not create the event.
FailureSignal == StrVal(<<Lit("Sorry, I couldn't create that event.")>>)

\* Further replies of the text-generation collaborator: the sentinels, an
\* error reply, the empty string, and texts at and over the length limit.
ReasoningReplies ==
    {Returns(StrVal(toks)) :
        toks \in {<<Lit("INSUFFICIENT_DATA")>>, <<Lit("insufficient_data")>>,
                  <<Lit("REASONING_ERROR")>>, <<Lit("Error: no reply")>>, <<>>,
                  <<Lit(TextAtLimit)>>, <<Lit(TextOverLimit)>>}}

\* A text in braces, as an action that returns a set or a dict prints.
BracedText == StrVal(<<Braced("a")>>)

\* What the collaborator called for a step may do: the create_event action
\* may also return its failure signal, the get_events action a text in
\* braces, the text-generation collaborator any of its further replies.
OutcomesOf(step) ==
    IF step.action = Str("create_event") THEN Outcomes \cup {Returns(FailureSignal)}
    ELSE IF step.action = Str("get_events") /\ step.save_as = Str("y") /\ ~Has(step.args)
    THEN Outcomes \cup {Returns(BracedText)}
    ELSE IF ~Has(step.action) /\ Has(step.reasoning) THEN Outcomes \cup ReasoningReplies
    ELSE Outcomes

(* ---------------------------------------------------------- plan generator *)

\* A reply of the text-generation collaborator is a sequence of chunks: a
\* text without braces, the JSON text of an object, a lone "{" or "}".
Text(t) == <<"text", t>>
Json(object) == <<"json", object>>
OpenBrace == <<"open", "{">>
CloseBrace == <<"close", "}">>

\* response.find('{'): the first chunk that starts with "{" (0 for -1).
FindOpen(response) ==
    LET at == {j \in 1..Len(response) : response[j][1] \in {"json", "open"}}
    IN IF at = {} THEN 0 ELSE CHOOSE j \in at : \A m \in at : j <= m

\* response.rfind('}'): the last chunk that ends with "}" (0 for -1).
FindClose(response) ==
    LET at == {j \in 1..Len(response) : response[j][1] \in {"json", "close"}}
    IN IF at = {} THEN 0 ELSE CHOOSE j \in at : \A m \in at : j >= m

NoParse == [raises |-> TRUE, plan |-> NotADictPlan("none")]

\* UnifiedLLMClient._parse_plan_response: the plan, or a raised ValueError.
\* json.loads accepts the text from the first "{" to the last "}" when it
\* is the text of one object.
ParsePlanResponse(response) ==
    LET start_idx == FindOpen(response)
        end_idx == FindClose(response)
    IN IF start_idx = 0 \/ end_idx = 0 THEN NoParse
       ELSE IF start_idx # end_idx \/ response[start_idx][1] # "json" THEN NoParse
       ELSE LET parsed == response[start_idx][2]
            IN IF parsed.steps.k = "absent" THEN NoParse
               ELSE IF parsed.steps.k # "list" THEN NoParse
               ELSE [raises |-> FALSE, plan |-> parsed]

\* The loop of generate_plan over plan['steps'] that reads the keys of each
\* step with step.get: it raises on a step that is not a dict.
StepLoopRaises(plan) ==
    \E j \in 1..Len(plan.steps.v) : plan.steps.v[j].shape # "dict"

\* UnifiedLLMClient.generate_plan: what it hands to the validator and what
\* it returns, (plan, is_valid, errors), unless it raises.
GeneratePlanOf(response, actions_schema) ==
    LET parse == ParsePlanResponse(response)
    IN IF parse.raises \/ StepLoopRaises(parse.plan)
       THEN [raises |-> TRUE, plan |-> NoParse.plan, validated |-> FALSE,
             validation |-> [is_valid |-> FALSE, errors |-> <<>>]]
       ELSE IF ValidatePlanRaises(parse.plan, actions_schema)
       THEN [raises |-> TRUE, plan |-> parse.plan, validated |-> TRUE,
             validation |-> [is_valid |-> FALSE, errors |-> <<>>]]
       ELSE [raises |-> FALSE, plan |-> ValidatedPlan(parse.plan), validated |-> TRUE,
             validation |-> ValidatePlan(parse.plan, actions_schema)]

\* The JSON objects of the replies.
ReplyObjects ==
    {Plan(g, StepList(ss), Absent) :
        g \in {Str("t"), Absent},
        ss \in {<<Step(TRUE, Str("get_events"), Absent, Absent, NoArgs, Absent)>>,
                <<Step(TRUE, Absent, Str("find a free slot"), Absent, NoArgs, Str("x")),
                  Step(TRUE, Str("create_event"), Absent, Absent,
                       Dict(<<Arg("title", StrVal(<<Lit("dinner")>>)),
                              Arg("start_time", StrVal(<<Ref("x")>>))>>), Absent)>>,
                <<Step(TRUE, Str("read_note"), Absent, Absent, NoArgs, Absent),
                  Step(TRUE, Str("read_note"), Absent, Absent, Dict(<<>>), Absent)>>,
                <<NotADictStep("str")>>,
                <<Step(TRUE, Str("get_events"), Absent, Absent, NoArgs, ListName)>>,
                <<>>}}
    \cup {Plan(g, [k |-> sk, v |-> <<>>], Absent) :
            g \in {Str("t"), Absent}, sk \in {"absent", "other"}}

\* The replies _make_request returns to generate_plan: an object alone, in
\* a sentence, after the "Error: " prefix of a failed request; replies
\* without an object; two objects; stray braces.
GeneratorReplies ==
    {<<Json(o)>> : o \in ReplyObjects}
    \cup {<<Text("Here is the plan: "), Json(o), Text(" Done.")>> : o \in ReplyObjects}
    \cup {<<Text("Error: HTTP 500 - "), Json(o)>> : o \in ReplyObjects}
    \cup {<<>>,
          <<Text("I cannot plan that.")>>,
          <<Text("Error: Request timed out - please try again")>>,
          <<Text("Error: HTTP 500 - "), OpenBrace, Text("oops")>>,
          <<CloseBrace, Text(" and "), OpenBrace>>}
    \cup {<<Json(o), Json(o)>> :
            o \in {Plan(Str("t"),
                        StepList(<<Step(TRUE, Str("get_events"), Absent, Absent,
                                        NoArgs, Absent)>>), Absent)}}

(* ------------------------------------------------------------------- state *)

VARIABLES
    plan,        \* the plan given to the operation in progress
    pc,          \* "idle" | "validated" (validator) | "running" | "returned" (executor)
                 \* | "generated" | "cancelled" (orchestrator)
                 \* | "raised" (the call ended with an exception)
    validation,  \* what validate_plan returned
    variables,   \* PlanExecutor.memory.variables
    execution_history,  \* PlanExecutor.memory.execution_history
    results,     \* the results list of the execute_plan call in progress
    dispatched,  \* the collaborator calls made by the current execute_plan call
    returned,    \* what the last execute_plan call returned
    ncalls,      \* number of execute_plan calls issued
    raw_response,  \* the reply generate_plan got for the request in progress
    handed,      \* the components the plan of the request was handed to
    current_mode,  \* UnifiedOrchestrator.current_mode: "none" | "agent"
    calls,       \* the execute_plan call of each concurrent caller of one PlanExecutor
    index,       \* NotesService.index with the note files: note id -> note
    clock,       \* datetime.now(), in whole seconds
    created,     \* what the create_note calls returned, in call order
    user_responses,  \* legacy PlanExecutor.user_responses
    legacy_plan,     \* the steps of the plan the legacy execute_plan is running
    legacy_results   \* the results list of the legacy execute_plan

\* The variables of the components other than the plan engine.
concurrent_vars == <<calls>>
notes_vars == <<index, clock, created>>
legacy_vars == <<user_responses, legacy_plan, legacy_results>>
engine_vars == <<plan, pc, validation, results, dispatched, returned, ncalls,
                 raw_response, handed, current_mode>>
memory_vars == <<variables, execution_history>>

vars == <<engine_vars, memory_vars, concurrent_vars, notes_vars, legacy_vars>>

NoPlan == Plan(Absent, [k |-> "absent", v |-> <<>>], Absent)
NoValidation == [is_valid |-> FALSE, errors |-> <<>>]
NoReturn == ExecutionResult(FALSE, NoError, <<>>, <<>>, NoVariables)

\* The callers that share one PlanExecutor.
Callers == {1, 2}

\* A caller that has not issued its call.
NoCall == [pc |-> "idle", plan |-> NoPlan, results |-> <<>>, returned |-> NoReturn]

\* No caller has called yet.
InitCalls == calls = [c \in Callers |-> NoCall]

\* NotesService.__init__ on an empty notes directory.
InitNotes ==
    /\ index = <<>>
    /\ clock = 0
    /\ created = <<>>

\* The legacy PlanExecutor.__init__
InitLegacy ==
    /\ user_responses = <<>>
    /\ legacy_plan = <<>>
    /\ legacy_results = <<>>

\* The plan engine after construction, no call issued yet.
InitEngine ==
    /\ pc = "idle"
    /\ validation = NoValidation
    /\ variables = NoVariables
    /\ execution_history = <<>>
    /\ results = <<>>
    /\ dispatched = <<>>
    /\ returned = NoReturn
    /\ ncalls = 0
    /\ raw_response = <<>>
    /\ handed = <<>>
    /\ current_mode = "none"

(* ------------------------------------------------- validator specification *)

InitValidator ==
    /\ plan \in ValidatorPlans
    /\ InitEngine
    /\ InitCalls
    /\ InitNotes
    /\ InitLegacy

\* One call validate_plan(plan, ACTIONS).
Validate ==
    /\ pc = "idle"
    /\ IF ValidatePlanRaises(plan, ACTIONS_SCHEMA)
       THEN /\ validation' = NoValidation
            /\ pc' = "raised"
       ELSE /\ validation' = ValidatePlan(plan, ACTIONS_SCHEMA)
            /\ pc' = "validated"
    /\ UNCHANGED <<plan, variables, execution_history, results, dispatched, returned, ncalls,
                   raw_response, handed, current_mode>>
    /\ UNCHANGED <<concurrent_vars, notes_vars, legacy_vars>>

NextValidator == Validate

SpecValidator == InitValidator /\ [][NextValidator]_vars

(* -------------------------------------------------- executor specification *)

\* PlanExecutor.__init__: a fresh PlanMemory, no call issued yet.
Init ==
    /\ plan = NoPlan
    /\ InitEngine
    /\ InitCalls
    /\ InitNotes
    /\ InitLegacy

\* PlanExecutor.execute_plan up to the step loop: validate; return at once
\* when the plan is invalid, else clear the memory. The statements up to
\* the validation are outside the try block: what they raise leaves the
\* call as an exception.
ExecutePlanOf(p) ==
        LET v == IF ExecutePlanRaises(p, ACTIONS_SCHEMA) THEN NoValidation
                 ELSE ValidatePlan(p, ACTIONS_SCHEMA)
        IN /\ plan' = IF ExecutePlanRaises(p, ACTIONS_SCHEMA) THEN p ELSE ValidatedPlan(p)
           /\ validation' = v
           /\ ncalls' = ncalls + 1
           /\ results' = <<>>
           /\ dispatched' = <<>>
           /\ IF ExecutePlanRaises(p, ACTIONS_SCHEMA)
              THEN /\ returned' = NoReturn
                   /\ pc' = "raised"
                   /\ UNCHANGED <<variables, execution_history>>
              ELSE IF Rejected(v)
              THEN /\ returned' = ExecutionResult(FALSE, <<"Plan validation failed">>,
                                                  v.errors, <<>>, NoVariables)
                   /\ pc' = "returned"
                   /\ UNCHANGED <<variables, execution_history>>
              ELSE /\ variables' = NoVariables
                   /\ execution_history' = <<>>
                   /\ returned' = NoReturn
                   /\ pc' = "running"

\* A caller hands a plan to execute_plan.
ExecutePlan ==
    /\ pc = "idle"
    /\ ncalls < MaxCalls
    /\ \E p \in ExecutorPlans : ExecutePlanOf(p)
    /\ UNCHANGED <<raw_response, handed, current_mode>>
    /\ UNCHANGED <<concurrent_vars, notes_vars, legacy_vars>>

\* One turn of the step loop of execute_plan: run the next step, store its
\* result under save_as, and return when it failed or was the last one.
\* (No step of a validated plan raises out of _execute_step or store, so the
\* except branch of execute_plan is not taken.)
ExecuteStep ==
    /\ pc = "running"
    /\ \E outcome \in OutcomesOf(plan.steps.v[Len(results) + 1]) :
        LET i == Len(results) + 1
            step == plan.steps.v[i]
            step_result == ExecuteOneStep(step, i, variables, outcome)
            memory == IF Has(step.save_as)
                      THEN Store(variables, execution_history, step.save_as.v,
                                 GetResult(step_result))
                      ELSE [variables |-> variables, history |-> execution_history]
            new_results == Append(results, step_result)
        IN /\ results' = new_results
           /\ dispatched' = dispatched \o Dispatch(step, i, variables)
           /\ variables' = memory.variables
           /\ execution_history' = memory.history
           /\ IF StepFailed(step_result)
              THEN /\ returned' = ExecutionResult(FALSE, <<"Step failed", i, step_result.error>>,
                                                  <<>>, new_results, memory.variables)
                   /\ pc' = "returned"
              ELSE IF i = Len(plan.steps.v)
              THEN /\ returned' = ExecutionResult(TRUE, NoError, <<>>, new_results,
                                                  memory.variables)
                   /\ pc' = "returned"
              ELSE /\ returned' = NoReturn
                   /\ pc' = "running"
           /\ plan' = PlanAfterStep(plan, i, variables)
           /\ UNCHANGED <<validation, ncalls, raw_response, handed, current_mode>>
    /\ UNCHANGED <<concurrent_vars, notes_vars, legacy_vars>>

\* The end of a call: its result dict, or its exception, goes to the
\* caller; the executor and its memory stay.
CallEnds ==
    /\ pc \in {"returned", "raised"}
    /\ pc' = "idle"
    /\ plan' = NoPlan
    /\ validation' = NoValidation
    /\ results' = <<>>
    /\ dispatched' = <<>>
    /\ returned' = NoReturn
    /\ raw_response' = <<>>
    /\ handed' = <<>>
    /\ UNCHANGED <<variables, execution_history, ncalls>>
    /\ UNCHANGED <<concurrent_vars, notes_vars, legacy_vars>>

\* The caller of execute_plan renders the result dict, or catches the
\* exception, and drops it.
DropResult ==
    /\ CallEnds
    /\ UNCHANGED current_mode

Next == ExecutePlan \/ ExecuteStep \/ DropResult

Spec == Init /\ [][Next]_vars

(* ------------------------------------------------- generator specification *)

\* UnifiedOrchestrator._handle_agentic_request up to the return of
\* generate_plan: current_mode is set to "agent", the reply is parsed and
\* the plan validated, or generate_plan raises.
GeneratePlan ==
    /\ pc \in {"idle", "cancelled"}
    /\ ncalls < MaxCalls
    /\ \E response \in GeneratorReplies :
        LET g == GeneratePlanOf(response, ACTIONS_SCHEMA)
        IN /\ raw_response' = response
           /\ plan' = g.plan
           /\ validation' = g.validation
           /\ handed' = IF g.validated THEN <<"validator">> ELSE <<>>
           /\ pc' = IF g.raises THEN "raised" ELSE "generated"
    /\ current_mode' = "agent"
    /\ UNCHANGED <<variables, execution_history, results, dispatched, returned, ncalls>>
    /\ UNCHANGED <<concurrent_vars, notes_vars, legacy_vars>>

\* The orchestrator answers that it could not create a plan: is_valid is
\* false and execute_plan is not called.
ReplyInvalid ==
    /\ pc = "generated"
    /\ ~validation.is_valid
    /\ pc' = "idle"
    /\ plan' = NoPlan
    /\ validation' = NoValidation
    /\ raw_response' = <<>>
    /\ handed' = <<>>
    /\ UNCHANGED <<variables, execution_history, results, dispatched, returned, ncalls,
                   current_mode>>
    /\ UNCHANGED <<concurrent_vars, notes_vars, legacy_vars>>

\* The orchestrator hands the valid plan to execute_plan.
ExecuteGenerated ==
    /\ pc = "generated"
    /\ validation.is_valid
    /\ ExecutePlanOf(plan)
    /\ handed' = Append(handed, "executor")
    /\ UNCHANGED <<raw_response, current_mode>>
    /\ UNCHANGED <<concurrent_vars, notes_vars, legacy_vars>>

\* The end of _handle_agentic_request after generate_plan raised or
\* execute_plan returned: current_mode is set to None on the success path
\* and in the except branch, not on the return for a failed execution.
FinishRequest ==
    /\ CallEnds
    /\ current_mode' = IF pc = "raised" \/ returned.success THEN "none" ELSE current_mode

\* UnifiedOrchestrator._handle_commands for the cancel command, between
\* two requests: _reset_current_task resets the plan executor when
\* current_mode is "agent", and sets current_mode to None; the orchestrator
\* has then handled the command ("cancelled") and waits for the next input.
Cancel ==
    /\ pc \in {"idle", "cancelled"}
    /\ pc' = "cancelled"
    /\ IF current_mode = "agent"
       THEN /\ variables' = NoVariables
            /\ execution_history' = <<>>
       ELSE UNCHANGED <<variables, execution_history>>
    /\ current_mode' = "none"
    /\ UNCHANGED <<plan, validation, results, dispatched, returned, ncalls,
                   raw_response, handed>>
    /\ UNCHANGED <<concurrent_vars, notes_vars, legacy_vars>>

NextGenerator ==
    GeneratePlan \/ ReplyInvalid \/ ExecuteGenerated \/ ExecuteStep \/ FinishRequest
    \/ Cancel

SpecGenerator == Init /\ [][NextGenerator]_vars

(* ------------------------------------------------------ executor properties *)

\* The result at position j is the result of the j-th declared step.
ResultOfStep(result, j) ==
    /\ result.step_number = j
    /\ LET step == plan.steps.v[j]
       IN IF Has(step.action)
          THEN result.step_type = "action" /\ result.what = step.action.v
          ELSE result.step_type = "reasoning" /\ result.what = step.reasoning.v

\* C1: in a validated plan, when step k is the first step whose result
\* carries an error, execute_plan has returned success = false with exactly
\* k results in declared order, the k-th being the failing one, its error
\* names step k, and no collaborator call was made for a step after k.
C1_HaltsAtFirstError ==
    \A k \in 1..Len(results) :
        (results[k].error # NoError /\ \A j \in 1..(k - 1) : results[j].error = NoError)
        => /\ pc = "returned"
           /\ validation.is_valid
           /\ ~returned.success
           /\ returned.results = results
           /\ Len(returned.results) = k
           /\ \A j \in 1..k : ResultOfStep(returned.results[j], j)
           /\ returned.error[1] = "Step failed"
           /\ returned.error[2] = k
           /\ returned.error[3] = results[k].error
           /\ \A d \in 1..Len(dispatched) : dispatched[d].step_number <= k

\* C1 witness: a two-step plan has returned after its first step failed in
\* the action collaborator.
C1_Witness ==
    /\ pc = "returned"
    /\ Len(plan.steps.v) = 2
    /\ Len(results) = 1
    /\ results[1].error # NoError
    /\ results[1].error[1] = "Action execution failed"
    /\ Len(dispatched) = 1

\* C2: when every step of a validated plan completed without error,
\* execute_plan has returned success = true with one result per declared
\* step, the i-th numbered i and belonging to the i-th step.
C2_AllStepsSucceed ==
    (/\ pc = "returned"
     /\ validation.is_valid
     /\ \A j \in 1..Len(results) : results[j].error = NoError)
    => /\ returned.success
       /\ returned.error = NoError
       /\ Len(returned.results) = Len(plan.steps.v)
       /\ \A i \in 1..Len(returned.results) : ResultOfStep(returned.results[i], i)

\* C2 witness: a two-step plan has returned success.
C2_Witness ==
    /\ pc = "returned"
    /\ returned.success
    /\ Len(plan.steps.v) = 2
    /\ Len(returned.results) = 2

\* C3: when the validator rejected the plan (it returned is_valid = false),
\* execute_plan has returned success = false with the validator's errors
\* and an empty results list, and neither collaborator was called.
C3_InvalidPlanNotExecuted ==
    (pc \notin {"idle", "raised"} /\ ~validation.is_valid)
    => /\ pc = "returned"
       /\ ~returned.success
       /\ returned.error = <<"Plan validation failed">>
       /\ returned.validation_errors = validation.errors
       /\ returned.validation_errors # <<>>
       /\ returned.results = <<>>
       /\ results = <<>>
       /\ dispatched = <<>>

\* C3 witness: a call with a plan whose step lacks a required argument has
\* returned, after an earlier call on the same executor.
C3_Witness ==
    /\ pc = "returned"
    /\ ncalls = 2
    /\ ~validation.is_valid
    /\ Len(validation.errors) > 0
    /\ validation.errors[1][1] = "missing_required_argument"

\* The positions of the executed steps that declare save_as.
SavingSteps == {j \in 1..Len(results) : Has(plan.steps.v[j].save_as)}

\* C4: when an execute_plan call has returned, valid plan or not, the
\* memory holds nothing but what this call stored (a variable and a history
\* entry for an executed step that declares save_as): no variable and no
\* history entry of an earlier call is left.
C4_MemoryClearedByEveryCall ==
    pc = "returned"
    => /\ DOMAIN variables \subseteq {plan.steps.v[j].save_as.v : j \in SavingSteps}
       /\ Len(execution_history) <= Cardinality(SavingSteps)

\* C5: once a step that declares save_as = v has completed, the memory
\* holds under v the value of that step's result, in every later state of
\* the call, and final_memory holds it too when the call has returned, also
\* when a later step failed.
C5_ResultSavedAndKept ==
    \A j \in 1..Len(results) :
        (Has(plan.steps.v[j].save_as) /\ results[j].error = NoError)
        => LET v == plan.steps.v[j].save_as.v
           IN /\ v \in DOMAIN variables
              /\ results[j].result.k # "absent"
              /\ variables[v] = results[j].result
              /\ pc = "returned"
                 => /\ v \in DOMAIN returned.final_memory
                    /\ returned.final_memory[v] = results[j].result

\* C5 witness: the first step saved a string under x and the second step,
\* which reads x, failed in the action collaborator.
C5_Witness ==
    /\ pc = "returned"
    /\ ~returned.success
    /\ Len(results) = 2
    /\ plan.steps.v[1].save_as = Str("x")
    /\ results[1].result = StrVal(<<Lit("7:00 PM")>>)
    /\ results[2].error # NoError
    /\ returned.final_memory["x"] = StrVal(<<Lit("7:00 PM")>>)

\* The declared args dict of a step ({} when the step has no args key).
DeclaredArgs(step) == IF step.args.k = "dict" THEN step.args.v ELSE <<>>

\* Every template of the text names a stored variable.
AllStored(toks) ==
    \A t \in 1..Len(toks) : IsTemplateAt(toks, t) => toks[t][2] \in DOMAIN variables

\* The text with every template replaced by the printed stored value.
Replaced(toks) ==
    Flatten([t \in 1..Len(toks) |->
        IF toks[t][1] = "ref" THEN PyStr(variables[toks[t][2]]) ELSE <<toks[t]>>])

\* The collaborator call d got the declared arguments of its step: the same
\* keys in the same order, non-string values as declared, and every string
\* value with each template replaced by the printed stored value.
ReceivedDeclaredArgs(d) ==
    LET declared == DeclaredArgs(plan.steps.v[d.step_number])
    IN /\ Len(d.args) = Len(declared)
       /\ d.name = plan.steps.v[d.step_number].action.v
       /\ \A a \in 1..Len(declared) :
            /\ d.args[a][1] = declared[a][1]
            /\ d.args[a][2].k = declared[a][2].k
            /\ IF IsStr(declared[a][2])
               THEN /\ AllStored(declared[a][2].v)
                    /\ d.args[a][2].v = Replaced(declared[a][2].v)
               ELSE d.args[a][2] = declared[a][2]

\* C6 as claimed: every call of the action collaborator receives the
\* declared arguments with the templates replaced, and no string argument
\* it receives contains a ${name} template.
C6_NoTemplateReachesAction ==
    \A d \in 1..Len(dispatched) :
        dispatched[d].to = "action"
        => /\ ReceivedDeclaredArgs(dispatched[d])
           /\ \A a \in 1..Len(dispatched[d].args) :
                IsStr(dispatched[d].args[a][2])
                => \A t \in 1..Len(dispatched[d].args[a][2].v) :
                      ~IsTemplateAt(dispatched[d].args[a][2].v, t)

\* C6 amended: every call of the action collaborator receives the declared
\* arguments with the templates replaced, and every ${name} template in a
\* string argument it receives names a variable present in the memory.
C6_OnlyStoredTemplatesReachAction ==
    \A d \in 1..Len(dispatched) :
        dispatched[d].to = "action"
        => /\ ReceivedDeclaredArgs(dispatched[d])
           /\ \A a \in 1..Len(dispatched[d].args) :
                IsStr(dispatched[d].args[a][2]) => AllStored(dispatched[d].args[a][2].v)

\* C6 witness: the action collaborator was called for a step that declares
\* limit = 5 and date = "${x}" while x held "7:00 PM", and received the
\* number unchanged and date = "7:00 PM".
C6_Witness ==
    \E d \in 1..Len(dispatched) :
        /\ dispatched[d].to = "action"
        /\ DeclaredArgs(plan.steps.v[dispatched[d].step_number])
             = <<Arg("limit", IntVal("5")), Arg("date", StrVal(<<Ref("x")>>))>>
        /\ dispatched[d].args
             = <<Arg("limit", IntVal("5")), Arg("date", StrVal(<<Lit("7:00 PM")>>))>>

\* The variables in the memory when step j is reached: the save_as names of
\* the steps before it.
MemoryKeysBefore(j) ==
    {plan.steps.v[m].save_as.v : m \in {n \in 1..(j - 1) : Has(plan.steps.v[n].save_as)}}

\* The template names of a text that are not in keys, in order.
NamesNotIn(toks, keys) ==
    Flatten([t \in 1..Len(toks) |->
        IF IsTemplateAt(toks, t) /\ toks[t][2] \notin keys THEN <<toks[t][2]>> ELSE <<>>])

\* The names left unresolved in the substituted args of the j-th result.
Unresolved(j) ==
    Flatten([a \in 1..Len(results[j].args) |->
        IF IsStr(results[j].args[a][2])
        THEN NamesNotIn(results[j].args[a][2].v, MemoryKeysBefore(j))
        ELSE <<>>])

\* C7: when a substituted string argument of an action step still contains
\* a template whose name is not in the memory, the step's error is 'Missing
\* template variables' with those names, the action collaborator was not
\* called for the step, and execute_plan has returned failure at that step.
C7_MissingTemplateVariablesHalt ==
    \A j \in 1..Len(results) :
        (results[j].step_type = "action" /\ Unresolved(j) # <<>>)
        => /\ results[j].error = <<"Missing template variables", Unresolved(j)>>
           /\ \A d \in 1..Len(dispatched) : dispatched[d].step_number # j
           /\ pc = "returned"
           /\ Len(results) = j
           /\ ~returned.success
           /\ returned.error[1] = "Step failed"
           /\ returned.error[2] = j

\* C7 witness: step 1 saved the text "${x}" under y, and step 2, whose date
\* is "on ${y}", failed because x is not in the memory.
C7_Witness ==
    /\ pc = "returned"
    /\ Len(results) = 2
    /\ results[1].result = StrVal(<<Ref("x")>>)
    /\ results[2].args = <<Arg("date", StrVal(<<Lit("on "), Ref("x")>>))>>
    /\ results[2].error = <<"Missing template variables", <<"x">>>>

(* ----------------------------------------------------- validator properties *)

\* The plan passed the structural checks: goal and steps present, steps a
\* non-empty list (the step-level checks run only then).
StructureAccepted ==
    /\ plan.goal.k = "str"
    /\ plan.steps.k = "list"
    /\ Len(plan.steps.v) > 0
    /\ plan.reasoning.k \in {"absent", "str"}

\* validate_plan returned an error of the given kind for the 1-based step i
\* that names the given variable.
HasErrorNaming(kind, i, name) ==
    \E e \in 1..Len(validation.errors) :
        /\ validation.errors[e][1] = kind
        /\ validation.errors[e][2] = i - 1
        /\ validation.errors[e][3] = name

\* Some step strictly before step i declares save_as = name.
SavedBefore(i, name) ==
    \E j \in 1..(i - 1) : plan.steps.v[j].save_as = Str(name)

\* Step i has a string-valued argument that contains ${name}.
References(i, name) ==
    /\ plan.steps.v[i].args.k = "dict"
    /\ \E a \in 1..Len(plan.steps.v[i].args.v) :
         /\ IsStr(plan.steps.v[i].args.v[a][2])
         /\ \E t \in 1..Len(plan.steps.v[i].args.v[a][2].v) :
              plan.steps.v[i].args.v[a][2].v[t] = Ref(name)

\* The names the plans of the model use in templates.
TemplateNames == {"x", "y"}

\* C8: validate_plan accepts a plan only if every ${name} in a string
\* argument of step i is the save_as name of a step strictly before i; a
\* reference to a name saved only by the same step, only by a later step or
\* by no step makes the plan invalid and yields an 'undefined variable'
\* error for that step naming it (the error list of a plan that fails the
\* structural checks holds structural errors only).
C8_ReferencesDefinedEarlier ==
    pc = "validated"
    => \A i \in 1..Len(plan.steps.v) : \A name \in TemplateNames :
          (References(i, name) /\ ~SavedBefore(i, name))
          => /\ ~validation.is_valid
             /\ StructureAccepted => HasErrorNaming("undefined_variable", i, name)

\* C8 witness: step 1 reads ${x} and is itself the only step that saves x;
\* the plan was rejected with the undefined-variable error.
C8_Witness ==
    /\ pc = "validated"
    /\ StructureAccepted
    /\ Len(plan.steps.v) = 2
    /\ References(1, "x")
    /\ plan.steps.v[1].save_as = Str("x")
    /\ plan.steps.v[2].save_as # Str("x")
    /\ ~validation.is_valid
    /\ HasErrorNaming("undefined_variable", 1, "x")

\* C9: validate_plan rejects every plan in which two different steps declare
\* the same save_as name, with a 'defined multiple times' error naming it on
\* the later step (structural errors only when the structural checks fail);
\* so the save_as names of an accepted plan are pairwise distinct.
C9_DuplicateSaveAsRejected ==
    pc = "validated"
    => /\ \A i \in 1..Len(plan.steps.v) : \A j \in 1..(i - 1) :
            (Has(plan.steps.v[i].save_as) /\ plan.steps.v[i].save_as = plan.steps.v[j].save_as)
            => /\ ~validation.is_valid
               /\ StructureAccepted
                  => HasErrorNaming("defined_multiple_times", i, plan.steps.v[i].save_as.v)
       /\ validation.is_valid
          => \A i \in 1..Len(plan.steps.v) : \A j \in 1..Len(plan.steps.v) :
                (i # j /\ Has(plan.steps.v[i].save_as))
                => plan.steps.v[i].save_as # plan.steps.v[j].save_as

\* C9 witness: two otherwise well-formed steps both declare save_as = x and
\* the only error is the duplicate definition at the second one.
C9_Witness ==
    /\ pc = "validated"
    /\ Len(plan.steps.v) = 2
    /\ plan.steps.v[1].save_as = Str("x")
    /\ plan.steps.v[2].save_as = Str("x")
    /\ validation = [is_valid |-> FALSE,
                     errors |-> <<<<"defined_multiple_times", 1, "x">>>>]

\* The argument keys a step supplies (none when it has no args dict).
SuppliedKeys(step) ==
    IF step.args.k = "dict" THEN Range(Keys(step.args.v)) ELSE {}

\* C10: in every plan validate_plan accepts, each action step, with or
\* without an args field, names an action of the schema, supplies only
\* argument keys of that action's required-or-optional set, and supplies
\* every required argument of that action.
C10_AcceptedActionStepsMatchSchema ==
    (pc = "validated" /\ validation.is_valid)
    => \A i \in 1..Len(plan.steps.v) :
          Has(plan.steps.v[i].action)
          => /\ plan.steps.v[i].action.v \in DOMAIN ACTIONS_SCHEMA
             /\ LET spec == ACTIONS_SCHEMA[plan.steps.v[i].action.v]
                IN /\ SuppliedKeys(plan.steps.v[i])
                        \subseteq Range(spec.required_args \o spec.optional_args)
                   /\ Range(spec.required_args) \subseteq SuppliedKeys(plan.steps.v[i])

\* The number of content fields (action, reasoning, condition) a step carries.
ContentFields(step) ==
    Cardinality({f \in {"action", "reasoning", "condition"} : Has(step[f])})

\* validate_plan returned a step-variant error for the 1-based step i.
VariantRejected(i) ==
    \E e \in 1..Len(validation.errors) :
        /\ validation.errors[e][1] \in {"neither_action_nor_reasoning",
                                        "both_action_and_reasoning"}
        /\ validation.errors[e][2] = i - 1

\* C11: the step-variant check of validate_plan accepts a step exactly when
\* it carries exactly one of the content fields action, reasoning,
\* condition: a plan whose only step is a well-formed conditional step
\* {id, condition, next_id} is accepted, and a step carrying two of the
\* fields gets a variant error.
C11_ExactlyOneContentField ==
    (pc = "validated" /\ StructureAccepted)
    => /\ \A i \in 1..Len(plan.steps.v) :
            VariantRejected(i) <=> ContentFields(plan.steps.v[i]) # 1
       /\ plan.steps.v = <<Step(TRUE, Absent, Absent, Str("${x} == true"), NoArgs, Absent)>>
          => validation.is_valid

(* ------------------------------------------------------- step-limit property *)

\* The error list holds the 'too many steps' error.
TooManySteps(errors) ==
    \E e \in 1..Len(errors) : errors[e] = <<"too_many_steps">>

\* C12: validate_plan rejects every plan of more than 10 steps, with a
\* 'too many steps' error when the structural checks pass, and gives that
\* error to no plan of 10 or fewer steps; a plan rejected this way is
\* returned as a failure with no step run and no collaborator called.
C12_TooManyStepsRejected ==
    (pc # "idle" /\ plan.steps.k = "list")
    => /\ Len(plan.steps.v) > 10 => ~validation.is_valid
       /\ StructureAccepted
          => (TooManySteps(validation.errors) <=> Len(plan.steps.v) > 10)
       /\ TooManySteps(validation.errors)
          => /\ pc = "returned"
             /\ ~returned.success
             /\ TooManySteps(returned.validation_errors)
             /\ results = <<>>
             /\ dispatched = <<>>

\* C12 witness: an 11-step plan of well-formed steps was returned as a
\* failure with the 'too many steps' error as its only error.
C12_Witness ==
    /\ pc = "returned"
    /\ Len(plan.steps.v) = 11
    /\ returned.validation_errors = <<<<"too_many_steps">>>>
    /\ ~returned.success
    /\ dispatched = <<>>

(* ------------------------------------------------- error-list properties *)

\* The kinds of error the structural checks produce.
StructuralKinds ==
    {"missing_key", "goal_not_string", "steps_not_list", "steps_empty",
     "reasoning_not_string"}

\* The errors validate_plan returned are exactly those of the given three
\* lists, each list kept whole and in its order, one list after the other.
ErrorsAre(step_errors, memory_errors, flow_errors) ==
    /\ Len(validation.errors) = Len(step_errors) + Len(memory_errors) + Len(flow_errors)
    /\ \A e \in 1..Len(step_errors) : validation.errors[e] = step_errors[e]
    /\ \A e \in 1..Len(memory_errors) :
          validation.errors[Len(step_errors) + e] = memory_errors[e]
    /\ \A e \in 1..Len(flow_errors) :
          validation.errors[Len(step_errors) + Len(memory_errors) + e] = flow_errors[e]

\* C14: validate_plan returns is_valid = true exactly when its error list
\* is empty; when the structural checks pass the list holds every per-step
\* error, then every variable-reference error, then every flow error; when a
\* structural check fails the list is non-empty and holds structural errors
\* only.
C14_ErrorsAccumulated ==
    pc = "validated"
    => /\ validation.is_valid <=> validation.errors = <<>>
       /\ StructureAccepted
          => ErrorsAre(ValidateSteps(plan.steps.v, ACTIONS_SCHEMA),
                       ValidateMemoryReferences(plan.steps.v),
                       ValidateLogicalFlow(plan.steps.v))
       /\ ~StructureAccepted
          => /\ validation.errors # <<>>
             /\ \A e \in 1..Len(validation.errors) :
                   /\ validation.errors[e][1] \in StructuralKinds
                   /\ Len(validation.errors[e]) <= 2

\* C14 witness: one plan with a per-step error at its second step, an
\* undefined reference at its first and a duplicate save_as; all three
\* errors are returned, in the order of the checks.
C14_Witness ==
    /\ pc = "validated"
    /\ StructureAccepted
    /\ validation.is_valid = FALSE
    /\ validation.errors = <<<<"missing_required_argument", 1, "title", "read_note">>,
                             <<"undefined_variable", 0, "x", "date">>,
                             <<"defined_multiple_times", 1, "y">>>>

(* ------------------------------------------------------ exception property *)

\* C15: validate_plan and execute_plan return a result object for every
\* plan value, malformed shapes included, and for every collaborator
\* behaviour: no call ever ends with an exception.
C15_NoExceptionEscapes ==
    pc # "raised"

(* ------------------------------------------------- action failure property *)

\* The action collaborator failed at the executed step j: it raised, or it
\* returned its failure signal.
ActionFailed(j) ==
    /\ results[j].step_type = "action"
    /\ \/ (results[j].error # NoError /\ results[j].error[1] = "Action execution failed")
       \/ results[j].result = FailureSignal

\* C16: an action step whose collaborator raised, or returned a failure
\* signal without raising, is a step-level failure that halts the plan: its
\* result has an error, it is the last step dispatched, and execute_plan has
\* returned success = false.
C16_ActionFailureHalts ==
    \A j \in 1..Len(results) :
        ActionFailed(j)
        => /\ results[j].error # NoError
           /\ j = Len(results)
           /\ pc = "returned"
           /\ ~returned.success

(* ---------------------------------------------- reasoning failure property *)

\* The text-generation collaborator raised while the executed step j, a
\* reasoning step, ran (no reply of the collaborator is the text the
\* reasoning engine makes of the exception).
ReasoningRaised(j) ==
    /\ results[j].step_type = "reasoning"
    /\ results[j].result = ExecuteReasoning(Raises)

\* C17: if the text-generation collaborator raises while a reasoning step
\* runs, the step is recorded with an error, it is the last step
\* dispatched, and execute_plan has returned success = false.
C17_ReasoningRaiseHalts ==
    \A j \in 1..Len(results) :
        ReasoningRaised(j)
        => /\ results[j].error # NoError
           /\ j = Len(results)
           /\ pc = "returned"
           /\ ~returned.success

(* ------------------------------------------------ result validity property *)

\* The reasoning result is one the validity check is to flag: None or the
\* empty string, the INSUFFICIENT_DATA sentinel, an explicit error string
\* (a bare error sentinel, an 'Error: ...' reply, the engine's own
\* 'REASONING_ERROR: ...'), or a string of more than 1000 characters.
Flagged(result) ==
    \/ result.k = "none"
    \/ /\ IsStr(result)
       /\ \/ result.v = <<>>
          \/ result.v \in {<<Lit("INSUFFICIENT_DATA")>>, <<Lit("insufficient_data")>>}
          \/ result.v \in {<<Lit("ERROR")>>, <<Lit("REASONING_ERROR")>>}
          \/ result.v[1] = Lit("Error: no reply")
          \/ result.v[1] = Lit("REASONING_ERROR: ")
          \/ StrLen(result.v) > 1000

\* C18: validate_reasoning_result, whose value a reasoning step records as
\* is_valid, is false for every result that is None or empty, is the
\* INSUFFICIENT_DATA sentinel, is an explicit error string ('Error: ...' or
\* the engine's own 'REASONING_ERROR: ...'), or is longer than 1000
\* characters, and true for every other result, one of exactly 1000
\* characters included.
C18_FlagsInvalidReasoningResults ==
    \A j \in 1..Len(results) :
        results[j].step_type = "reasoning"
        => (results[j].is_valid <=> ~Flagged(results[j].result))

(* ------------------------------------------------------- purity property *)

ErrorReply(response) ==
    /\ Len(response) > 0
    /\ response[1] \in {Text("Error: HTTP 500 - "),
                        Text("Error: Request timed out - please try again")}

\* C19: when the reply generate_plan got starts with 'Error:', whatever
\* follows the prefix, no plan is built from it and nothing is handed to
\* the validator or the executor.
C19_ErrorReplyBuildsNoPlan ==
    ErrorReply(raw_response)
    => /\ plan \in {NoPlan, NoParse.plan}
       /\ handed = <<>>
       /\ pc \in {"idle", "raised"}

\* The JSON objects in the reply.
ObjectsIn(response) ==
    {response[j][2] : j \in {m \in 1..Len(response) : response[m][1] = "json"}}

\* The reply holds no JSON object, or it holds one object and that object
\* lacks goal or lacks a list-typed steps.
NoPlanObject(response) ==
    \/ /\ response # <<>>
       /\ ObjectsIn(response) = {}
    \/ /\ Cardinality({m \in 1..Len(response) : response[m][1] = "json"}) = 1
       /\ \A m \in 1..Len(response) : response[m][1] \in {"json", "text"}
       /\ \E o \in ObjectsIn(response) : o.goal.k = "absent" \/ o.steps.k # "list"

\* C20: if the reply contains no JSON object, or the parsed object lacks
\* goal, or lacks a list-typed steps, plan generation fails before
\* validation: neither the validator nor the executor is invoked for it.
C20_StructurallyBadReplyNotValidated ==
    (pc # "idle" /\ NoPlanObject(raw_response))
    => /\ handed = <<>>
       /\ pc = "raised"

(* ------------------------------------------------- orchestrator properties *)

\* C21: after the orchestrator handled a cancel command, issued between any
\* two agentic requests (succeeded, failed in execution, or rejected in
\* validation), the memory of the plan executor holds no variable.
C21_CancelClearsMemory ==
    pc = "cancelled" => variables = NoVariables

\* C30: after every agentic request the orchestrator handled has returned,
\* whatever its outcome, current_mode is back to None.
C30_ModeResetAfterRequest ==
    [][(ReplyInvalid \/ FinishRequest) => current_mode' = "none"]_vars

(* ------------------------------------------- static and dynamic resolution *)

\* The stored value contains no ${...} text.
NoTemplateText(val) ==
    \A t \in 1..Len(val.v) : ~IsTemplateAt(val.v, t)

C28_FailedStepStillStored ==
    \A j \in 1..Len(results) :
        (results[j].error # NoError /\ Has(plan.steps.v[j].save_as))
        => LET name == plan.steps.v[j].save_as.v
           IN /\ name \in DOMAIN variables
              /\ variables[name] = NoneVal
              /\ pc = "returned"
              /\ name \in DOMAIN returned.final_memory
              /\ returned.final_memory[name] = NoneVal

\* C28 witness: the second step, which declares save_as = y, failed in the
\* action collaborator after the first step had stored x, and the failed
\* run returned a final_memory with both keys.
C28_Witness ==
    /\ pc = "returned"
    /\ ~returned.success
    /\ Len(results) = 2
    /\ results[1].error = NoError
    /\ results[2].error # NoError
    /\ results[2].error[1] = "Action execution failed"
    /\ plan.steps.v[2].save_as = Str("y")
    /\ DOMAIN returned.final_memory = {"x", "y"}
    /\ returned.final_memory["y"] = NoneVal

(* ------------------------------------------------------- the plan is kept *)

WithError(rs) == {j \in 1..Len(rs) : rs[j].error # NoError}

\* C29: in every ExecutionResult execute_plan returns, at most one
\* StepResult carries an error, and one that does is the last entry of
\* results; success is true exactly when validation passed and no
\* StepResult carries an error.
C29_OneErrorAndItIsLast ==
    pc = "returned"
    => /\ Cardinality(WithError(returned.results)) <= 1
       /\ \A j \in WithError(returned.results) : j = Len(returned.results)
       /\ returned.success <=> (validation.is_valid /\ WithError(returned.results) = {})

\* C29 witness: a run returned after its second step failed on a missing
\* template variable; the first entry of results carries no error.
C29_Witness ==
    /\ pc = "returned"
    /\ ~returned.success
    /\ validation.is_valid
    /\ Len(returned.results) = 2
    /\ WithError(returned.results) = {2}
    /\ returned.results[2].error[1] = "Missing template variables"

(* ------------------------------------------------------- sequential dispatch *)

\* A well-formed Conditional step of the data model: {id, condition, next_id}.
IsConditionalStep(step) ==
    /\ step.shape = "dict"
    /\ step.id
    /\ ~Has(step.action)
    /\ ~Has(step.reasoning)
    /\ Has(step.condition)
    /\ Has(step.next_id)

\* The plan is valid under the data model: validate_plan returned no error
\* but for the steps that are well-formed Conditional steps.
ValidButForConditionals ==
    \A e \in 1..Len(validation.errors) :
        /\ validation.errors[e][1] = "neither_action_nor_reasoning"
        /\ IsConditionalStep(plan.steps.v[validation.errors[e][2] + 1])

MaxSeconds == 2
\* Number of create_note calls issued.
MaxNotes == 3

\* NotesService._generate_id: "note_" and datetime.now() printed to the
\* second, "%Y%m%d_%H%M%S"; the id is named by that second.
GenerateId(now) == now

\* The Note create_note builds; created_at and updated_at are the time of
\* the call.
Note(id, title, content, now) ==
    [id |-> id, title |-> title, content |-> content, updated_at |-> now]

\* create_note returned None.
NoNote == [id |-> -1, title |-> "", content |-> "", updated_at |-> -1]

\* The titles and contents the callers of create_note pass.
NoteTitles == {"First Note", "Second Note"}
NoteContents == {"Content 1"}

\* The note file written and self.index[note_id] assigned: the entry of
\* the id is created, or replaced when the id is in the index already.
IndexWith(idx, note) ==
    [n \in (DOMAIN idx) \cup {note.id} |-> IF n = note.id THEN note ELSE idx[n]]

RECURSIVE NewestFirst(_, _)
\* The notes of the ids, sorted by updated_at, newest first.
NewestFirst(idx, ids) ==
    IF ids = {} THEN <<>>
    ELSE LET newest == CHOOSE n \in ids :
                           \A m \in ids : idx[m].updated_at <= idx[n].updated_at
         IN <<idx[newest]>> \o NewestFirst(idx, ids \ {newest})

\* NotesService.get_all_notes
GetAllNotes(idx) == NewestFirst(idx, DOMAIN idx)

\* One call create_note(title, content): the note is written under the
\* generated id and returned, or the write raises and None is returned.
CreateNote ==
    /\ Len(created) < MaxNotes
    /\ \E title \in NoteTitles, content \in NoteContents, written \in BOOLEAN :
          LET note == Note(GenerateId(clock), title, content, clock)
          IN IF written
             THEN /\ index' = IndexWith(index, note)
                  /\ created' = Append(created, note)
             ELSE /\ index' = index
                  /\ created' = Append(created, NoNote)
    /\ UNCHANGED <<clock, engine_vars, memory_vars, concurrent_vars, legacy_vars>>

\* A second passes.
Tick ==
    /\ clock < MaxSeconds
    /\ clock' = clock + 1
    /\ UNCHANGED <<index, created, engine_vars, memory_vars, concurrent_vars, legacy_vars>>

NextNotes == CreateNote \/ Tick

SpecNotes == Init /\ [][NextNotes]_vars

\* The number of create_note calls that returned a note.
SuccessfulCreates == Cardinality({j \in 1..Len(created) : created[j] # NoNote})

\* C24: each successful create_note adds exactly one note and replaces
\* none: starting from the empty store, after n successful create_note
\* calls, whatever the time between them, get_all_notes returns n notes.
C24_EveryCreateAddsANote ==
    Len(GetAllNotes(index)) = SuccessfulCreates

(* ------------------------------------- two callers of one PlanExecutor *)

\* The plans the two callers hand to execute_plan: the first caller's
\* steps save under x, the second caller's under y.
ConcurrentPlans(c) ==
    IF c = 1
    THEN {Plan(Str("t"), StepList(ss), Absent) :
            ss \in {<<Step(TRUE, Str("get_events"), Absent, Absent, NoArgs, Str("x"))>>,
                    <<Step(TRUE, Str("get_events"), Absent, Absent, NoArgs, Str("x")),
                      Step(TRUE, Str("get_events"), Absent, Absent,
                           Dict(<<Arg("limit", IntVal("5")),
                                  Arg("date", StrVal(<<Ref("x")>>))>>), Absent)>>}}
    ELSE {Plan(Str("t"), StepList(ss), Absent) :
            ss \in {<<Step(TRUE, Str("get_events"), Absent, Absent, NoArgs, Str("y"))>>,
                    <<Step(TRUE, Absent, Str("find a free slot"), Absent, NoArgs, Str("y")),
                      Step(TRUE, Str("get_events"), Absent, Absent,
                           Dict(<<Arg("date", StrVal(<<Lit("on "), Ref("y")>>))>>),
                           Absent)>>}}

\* Caller c enters execute_plan: the plan is validated and, when valid, the
\* memory of the executor is cleared. Nothing in PlanExecutor keeps a second
\* caller out while a call is running.
CallerExecutePlan(c) ==
    /\ calls[c].pc = "idle"
    /\ \E p \in ConcurrentPlans(c) :
          LET v == ValidatePlan(p, ACTIONS_SCHEMA)
          IN IF Rejected(v)
             THEN /\ calls' = [calls EXCEPT ![c] =
                                 [pc |-> "returned", plan |-> ValidatedPlan(p),
                                  results |-> <<>>,
                                  returned |-> ExecutionResult(FALSE,
                                                  <<"Plan validation failed">>,
                                                  v.errors, <<>>, NoVariables)]]
                  /\ UNCHANGED memory_vars
             ELSE /\ calls' = [calls EXCEPT ![c] =
                                 [pc |-> "running", plan |-> ValidatedPlan(p),
                                  results |-> <<>>, returned |-> NoReturn]]
                  /\ variables' = NoVariables
                  /\ execution_history' = <<>>
    /\ UNCHANGED <<engine_vars, notes_vars, legacy_vars>>

\* One turn of the step loop of caller c's execute_plan, on the memory the
\* callers share.
CallerExecuteStep(c) ==
    /\ calls[c].pc = "running"
    /\ \E outcome \in OutcomesOf(calls[c].plan.steps.v[Len(calls[c].results) + 1]) :
        LET i == Len(calls[c].results) + 1
            step == calls[c].plan.steps.v[i]
            step_result == ExecuteOneStep(step, i, variables, outcome)
            memory == IF Has(step.save_as)
                      THEN Store(variables, execution_history, step.save_as.v,
                                 GetResult(step_result))
                      ELSE [variables |-> variables, history |-> execution_history]
            new_results == Append(calls[c].results, step_result)
        IN /\ variables' = memory.variables
           /\ execution_history' = memory.history
           /\ calls' = [calls EXCEPT ![c] =
                IF StepFailed(step_result)
                THEN [pc |-> "returned", plan |-> PlanAfterStep(calls[c].plan, i, variables),
                      results |-> new_results,
                      returned |-> ExecutionResult(FALSE,
                                      <<"Step failed", i, step_result.error>>,
                                      <<>>, new_results, memory.variables)]
                ELSE IF i = Len(calls[c].plan.steps.v)
                THEN [pc |-> "returned", plan |-> PlanAfterStep(calls[c].plan, i, variables),
                      results |-> new_results,
                      returned |-> ExecutionResult(TRUE, NoError, <<>>, new_results,
                                                   memory.variables)]
                ELSE [pc |-> "running", plan |-> PlanAfterStep(calls[c].plan, i, variables),
                      results |-> new_results, returned |-> NoReturn]]
    /\ UNCHANGED <<engine_vars, notes_vars, legacy_vars>>

NextConcurrent == \E c \in Callers : CallerExecutePlan(c) \/ CallerExecuteStep(c)

SpecConcurrent == Init /\ [][NextConcurrent]_vars

\* The save_as names the steps of a plan declare.
SaveAsNames(p) ==
    {p.steps.v[j].save_as.v : j \in {m \in 1..Len(p.steps.v) : Has(p.steps.v[m].save_as)}}

\* The final_memory of each call that returned holds only the names its
\* own steps saved.
OwnWritesOnly ==
    \A c \in Callers :
        calls[c].pc = "returned"
        => DOMAIN calls[c].returned.final_memory \subseteq SaveAsNames(calls[c].plan)

\* C22: two execute_plan calls on one executor cannot overlap: no state is
\* reachable in which both calls are between their clear of the memory and
\* their return, so the final_memory of each call that returned holds only
\* the names its own steps saved.
C22_CallsDoNotOverlap ==
    /\ ~(\A c \in Callers : calls[c].pc = "running")
    /\ OwnWritesOnly

(* ------------------------------------------ legacy executor (src/plan_executor.py) *)

\* Longest plan the legacy executor specification draws.
MaxLegacySteps == 3

\* A step of a legacy plan; conditional is NoConditional when the step has
\* none.
NoConditional == ""
LegacyStep(step_id, action, conditional) ==
    [step_id |-> step_id, action |-> action, conditional |-> conditional]

\* The kinds of steps of the plans: an action of the schema, a reasoning
\* step, a user_confirmation step, and the conditional action step of the
\* example of the planning prompt.
LegacyStepKinds ==
    {[action |-> "get_events", conditional |-> NoConditional],
     [action |-> "reasoning", conditional |-> NoConditional],
     [action |-> "user_confirmation", conditional |-> NoConditional],
     [action |-> "create_event", conditional |-> "If user confirmed"]}

\* The plans: steps numbered 1, 2, ... in order, as the generator numbers
\* them.
LegacyPlans ==
    {[j \in 1..Len(kinds) |-> LegacyStep(j, kinds[j].action, kinds[j].conditional)] :
        kinds \in SeqsUpTo(LegacyStepKinds, MaxLegacySteps) \ {<<>>}}

\* "user confirmed" in conditional.lower()
MentionsUserConfirmed(conditional) == conditional \in {"If user confirmed"}

\* What the user types at the prompt, and input(...).strip().lower() of it.
UserInputs == {"yes", "Y", " Confirm ", "no"}
StripLower(typed) ==
    CASE typed = "Y" -> "y"
      [] typed = " Confirm " -> "confirm"
      [] OTHER -> typed

\* self.user_responses.get(key, "")
GetResponse(responses, key) ==
    IF key \in DOMAIN responses THEN responses[key] ELSE ""

\* PlanExecutor._check_conditional
CheckConditional(conditional, step_id, responses) ==
    IF conditional = NoConditional THEN TRUE
    ELSE IF MentionsUserConfirmed(conditional)
    THEN GetResponse(responses, step_id - 1) \in {"yes", "y", "confirm"}
    ELSE TRUE

\* The ExecutionResult of a step of the legacy executor.
LegacyResult(step_id, action, success, output, error) ==
    [step_id |-> step_id, action |-> action, success |-> success, output |-> output,
     error |-> error]

\* The legacy execute_plan is called with a plan.
LegacyExecutePlan ==
    /\ legacy_plan = <<>>
    /\ \E p \in LegacyPlans : legacy_plan' = p
    /\ legacy_results' = <<>>
    /\ UNCHANGED <<user_responses, engine_vars, memory_vars, concurrent_vars, notes_vars>>

\* One turn of the step loop of the legacy execute_plan: the step is
\* skipped when its conditional is not met; else it is executed by its
\* kind, a user_confirmation step storing the answer under the key
\* len(user_responses) + 1.
LegacyExecuteStep ==
    /\ Len(legacy_results) < Len(legacy_plan)
    /\ LET step == legacy_plan[Len(legacy_results) + 1]
       IN IF ~CheckConditional(step.conditional, step.step_id, user_responses)
          THEN /\ legacy_results' =
                     Append(legacy_results,
                            LegacyResult(step.step_id, step.action, FALSE, "",
                                         <<"Conditional not met", step.conditional>>))
               /\ UNCHANGED user_responses
          ELSE IF step.action = "user_confirmation"
          THEN \E typed \in UserInputs :
                  /\ user_responses' = Append(user_responses, StripLower(typed))
                  /\ legacy_results' =
                        Append(legacy_results,
                               LegacyResult(step.step_id, step.action, TRUE,
                                            StripLower(typed), NoError))
          ELSE \E raises \in BOOLEAN :
                  /\ legacy_results' =
                        Append(legacy_results,
                               IF raises
                               THEN LegacyResult(step.step_id, step.action, FALSE, "",
                                                 <<"boom">>)
                               ELSE LegacyResult(step.step_id, step.action, TRUE, "done",
                                                 NoError))
                  /\ UNCHANGED user_responses
    /\ UNCHANGED <<legacy_plan, engine_vars, memory_vars, concurrent_vars, notes_vars>>

NextLegacy == LegacyExecutePlan \/ LegacyExecuteStep

SpecLegacy == Init /\ [][NextLegacy]_vars

\* The step was skipped and recorded as 'Conditional not met'.
Skipped(result) ==
    /\ ~result.success
    /\ result.error # NoError
    /\ result.error[1] = "Conditional not met"

\* C26: a step whose conditional mentions 'user confirmed' is executed when
\* the user answered yes, y or confirm to the user_confirmation step
\* immediately before it, at whatever position that step sits in the plan,
\* and is skipped, recorded as 'Conditional not met', otherwise.
C26_ConfirmedStepIsExecuted ==
    \A j \in 2..Len(legacy_results) :
        (/\ MentionsUserConfirmed(legacy_plan[j].conditional)
         /\ legacy_plan[j - 1].action = "user_confirmation"
         /\ legacy_results[j - 1].success)
        => (Skipped(legacy_results[j])
              <=> legacy_results[j - 1].output \notin {"yes", "y", "confirm"})

====
